---- MODULE Spec2Model ----
(***************************************************************************)
(* State-machine model of src/index.tsx: the quest progression engine      *)
(* (updateQuestProgress), the session state manager (load effect, daily    *)
(* refresh, persistence, reset, level-up notification) and the location    *)
(* tracking subscription (handleToggleTracking).                           *)
(*                                                                         *)
(* Optional values (null / undefined in the source) are sequences of       *)
(* length at most one: None is null, Some(x) is the value x.               *)
(* Numbers are integers: a distance quest's progress is counted in whole   *)
(* units of distance, and position fixes lie on one meridian, where the    *)
(* haversine distance is the radius times the latitude difference.         *)
(* Timestamps are clock ticks; a calendar day is TicksPerDay ticks.        *)
(*                                                                         *)
(* The geolocation watch is the platform's: a callback that was queued     *)
(* before clearWatch removed its watch may or may not still be delivered   *)
(* (LateFix, LateError), which is the case the error callback's check      *)
(* "are we still tracking this quest" is written for.                      *)
(***************************************************************************)
EXTENDS Integers, Sequences, FiniteSets

\* ------------------------------------------------------------------ bounds
MaxClock == 3
TicksPerDay == 2
MaxValue == 2
MaxPos == 2
MaxStartLevel == 2

\* --------------------------------------------------------------- constants
XP_PER_LEVEL == 100

None == <<>>
Some(x) == <<x>>

Min(a, b) == IF a <= b THEN a ELSE b

\* ---------------------------------------------------- quest content oracle
\* The generator's answers: batches of quest definitions (without progress).
QuestDef(id, xp, type, goal) ==
    [id |-> id, title |-> id, description |-> id, xp |-> xp, type |-> type, goal |-> goal]

BatchA == << QuestDef("q1", 250, "static", 2), QuestDef("q2", 50, "distance", 2),
            QuestDef("q3", 100, "distance", 1) >>
BatchB == << QuestDef("q2", 0, "static", 1), QuestDef("q3", 250, "distance", 2) >>
QuestBatches == {BatchA, BatchB}

QuestIds == {"q1", "q2", "q3"}
UnknownId == "q9"
Names == {"Jinwoo"}
Difficulties == {"E"}
Positions == 0..MaxPos
Values == 1..MaxValue

\* ------------------------------------------------------------ pure helpers
\* new Date(x).toISOString().split('T')[0]: the calendar day of a timestamp
DayOf(stamp) == stamp \div TicksPerDay

\* haversineDistance for two fixes on one meridian
haversineDistance(c1, c2) == IF c1 >= c2 THEN c1 - c2 ELSE c2 - c1

\* aiData.quests.map(q => ({...q, progress: 0}))
WithProgress(q) ==
    [id |-> q.id, title |-> q.title, description |-> q.description, xp |-> q.xp,
     type |-> q.type, goal |-> q.goal, progress |-> 0]

FreshQuests(batch) == [i \in DOMAIN batch |-> WithProgress(batch[i])]

\* Questionnaire.handleNext: the record built from the generator's answer
InitialState(name, difficulty, batch, stamp) ==
    [name |-> name, level |-> 1, xp |-> 0, difficulty |-> difficulty,
     quests |-> FreshQuests(batch), skills |-> <<>>, lastLogin |-> stamp,
     dailySteps |-> 0, dailyDistance |-> 0]

\* JSON.stringify(stateToSave): the record written field by field
StringifyQuest(q) == <<q.id, q.title, q.description, q.xp, q.type, q.goal, q.progress>>

JSONStringify(s) ==
    [level |-> s.level, xp |-> s.xp, difficulty |-> s.difficulty,
     quests |-> [i \in DOMAIN s.quests |-> StringifyQuest(s.quests[i])],
     skills |-> s.skills, name |-> s.name, lastLogin |-> s.lastLogin,
     dailySteps |-> s.dailySteps, dailyDistance |-> s.dailyDistance]

ParseQuest(t) ==
    [id |-> t[1], title |-> t[2], description |-> t[3], xp |-> t[4],
     type |-> t[5], goal |-> t[6], progress |-> t[7]]

\* JSON.parse(savedState)
JSONParse(t) ==
    [name |-> t.name, level |-> t.level, xp |-> t.xp, difficulty |-> t.difficulty,
     quests |-> [i \in DOMAIN t.quests |-> ParseQuest(t.quests[i])],
     skills |-> t.skills, lastLogin |-> t.lastLogin,
     dailySteps |-> t.dailySteps, dailyDistance |-> t.dailyDistance]

\* ------------------------------------------------------ progression engine
\* the identifier is not compared: every unfinished quest matches
MatchesAnyId(q, questId) == q.progress < q.goal

\* q.id === questId && q.progress < q.goal
Matches(q, questId) == q.id = questId /\ q.progress < q.goal

\* the progress is not clamped to the goal
NewProgressUnclamped(q, value) == q.progress + value

\* Math.min(q.progress + value, q.goal)
NewProgress(q, value) == Min(q.progress + value, q.goal)

\* the reward is added on every update of the quest
CrossesAlways(q, newProgress) == TRUE

\* newProgress >= q.goal && q.progress < q.goal
Crosses(q, newProgress) == newProgress >= q.goal /\ q.progress < q.goal

\* the map callback
MapQuest(q, questId, value) ==
    IF Matches(q, questId) THEN [q EXCEPT !.progress = NewProgress(q, value)] ELSE q

\* what one quest adds to xpGained inside the map callback
QuestGain(q, questId, value) ==
    IF Matches(q, questId) /\ Crosses(q, NewProgress(q, value)) THEN q.xp ELSE 0

RECURSIVE SumGain(_, _, _, _)
SumGain(quests, questId, value, i) ==
    IF i > Len(quests) THEN 0
    ELSE QuestGain(quests[i], questId, value) + SumGain(quests, questId, value, i + 1)

\* an if in place of the while: at most one level per call
LevelUpOnce(newLevel, newXp) ==
    IF newXp >= XP_PER_LEVEL * newLevel
    THEN [level |-> newLevel + 1, xp |-> newXp - XP_PER_LEVEL * newLevel]
    ELSE [level |-> newLevel, xp |-> newXp]

\* the while loop: [level, xp] after the rollover
RECURSIVE LevelUp(_, _)
LevelUp(newLevel, newXp) ==
    IF newXp >= XP_PER_LEVEL * newLevel
    THEN LevelUp(newLevel + 1, newXp - XP_PER_LEVEL * newLevel)
    ELSE [level |-> newLevel, xp |-> newXp]

\* the update also adds the delta to the daily distance counter
updateQuestProgressCounting(prevState, questId, value) ==
    LET newQuests == [i \in DOMAIN prevState.quests |->
                         MapQuest(prevState.quests[i], questId, value)]
        xpGained == SumGain(prevState.quests, questId, value, 1)
        after == LevelUp(prevState.level, prevState.xp + xpGained)
    IN  IF xpGained = 0
           /\ \A i \in DOMAIN newQuests : newQuests[i].progress = prevState.quests[i].progress
        THEN prevState
        ELSE [prevState EXCEPT !.quests = newQuests, !.xp = after.xp, !.level = after.level,
                               !.dailyDistance = @ + value]

\* the updater passed to updateAndSaveState, on a record that is not null
updateQuestProgress(prevState, questId, value) ==
    LET newQuests == [i \in DOMAIN prevState.quests |->
                         MapQuest(prevState.quests[i], questId, value)]
        xpGained == SumGain(prevState.quests, questId, value, 1)
        after == LevelUp(prevState.level, prevState.xp + xpGained)
    IN  IF xpGained = 0
           /\ \A i \in DOMAIN newQuests : newQuests[i].progress = prevState.quests[i].progress
        THEN prevState
        ELSE [prevState EXCEPT !.quests = newQuests, !.xp = after.xp, !.level = after.level]

\* ------------------------------------------------------------------- state
VARIABLES
    now,                    \* the wall clock (new Date())
    storage,                \* localStorage["soloLevelingUserState"]
    userState,              \* App state: the player record or null
    isLoading,              \* App state
    pc,                     \* position of the load effect: start, awaitQuests, done
    parsedState,            \* the load effect's parsedState while it awaits the generator
    qLoading,               \* Questionnaire.isLoading: the onboarding request is in flight
    notification,           \* App state: the level-up notification
    showSync,               \* App state: the sync indicator
    prevLevelRef,           \* prevLevelRef.current
    activeTrackingQuestId,  \* App state
    questWatchIdRef,        \* questWatchIdRef.current
    lastQuestPositionRef,   \* lastQuestPositionRef.current
    watches,                \* the live geolocation watches: [id, quest, last]
    stale,                  \* quests of cleared watches with a callback still queued
    dayStart,               \* history: cumulative experience when the day's batch was installed
    ev                      \* history: the event handled by the last step

vars == <<now, storage, userState, isLoading, pc, parsedState, qLoading, notification,
          showSync, prevLevelRef, activeTrackingQuestId, questWatchIdRef,
          lastQuestPositionRef, watches, stale, dayStart, ev>>

trackingVars ==
    <<activeTrackingQuestId, questWatchIdRef, lastQuestPositionRef, watches, stale>>

\* The record of the last event: its kind, the quest and value of the
\* progress update it made (called), the player record before it (prev),
\* the fix delivered (pos) and the fix the same watch delivered before
\* (sessPrev), the quests installed by a refresh (batch), whether the
\* generator failed (failed) and the quest tracked before the event (tracked).
NoEvent ==
    [kind |-> "none", quest |-> "", value |-> 0, called |-> FALSE, prev |-> None,
     pos |-> None, sessPrev |-> None, batch |-> None, failed |-> FALSE,
     tracked |-> None]

Event(kind) == [NoEvent EXCEPT !.kind = kind]

\* 100*(1 + ... + (level-1)) + xp
RECURSIVE Thresholds(_, _)
Thresholds(from, to) == IF from >= to THEN 0 ELSE XP_PER_LEVEL * from + Thresholds(from + 1, to)

Cumulative(s) == Thresholds(1, s.level) + s.xp

\* --------------------------------------------------------- session manager
\* QuestItem: isCompleted
isCompleted(q) == q.progress >= q.goal

\* saveStateAndSync: the value written to localStorage
saveStateAndSync(stateToSave) == Some(JSONStringify(stateToSave))

\* the new record is kept in memory and never written
updateAndSaveStateNoSave(newState, oldStorage) == oldStorage

\* updateAndSaveState: the snapshot after the updater produced newState
updateAndSaveState(newState, oldStorage) ==
    IF newState # None THEN saveStateAndSync(newState[1]) ELSE oldStorage

\* the first level observed counts as a rise too
LevelRaisedOnFirstSight(newState, seen) ==
    newState # None /\ (seen = None \/ newState[1].level > seen[1])

\* the level-up effect: should the notification be raised for newState
LevelRaised(newState, seen) ==
    newState # None /\ seen # None /\ newState[1].level > seen[1]

\* the level-up effect, run when userState changed from old to new
LevelEffect(old, new) ==
    IF new = old
    THEN UNCHANGED <<notification, prevLevelRef>>
    ELSE /\ notification' = IF LevelRaised(new, prevLevelRef)
                            THEN Some(new[1].level) ELSE notification
         /\ prevLevelRef' = IF new # None THEN Some(new[1].level) ELSE prevLevelRef

Init ==
    /\ now = 0
    /\ storage = None
    /\ userState = None
    /\ isLoading = TRUE
    /\ pc = "start"
    /\ parsedState = None
    /\ qLoading = FALSE
    /\ notification = None
    /\ showSync = FALSE
    /\ prevLevelRef = None
    /\ activeTrackingQuestId = None
    /\ questWatchIdRef = None
    /\ lastQuestPositionRef = None
    /\ watches = {}
    /\ stale = {}
    /\ dayStart = 0
    /\ ev = NoEvent

\* the dashboard is on screen
Dashboard == ~isLoading /\ userState # None

\* the clock advances
Tick ==
    /\ now < MaxClock
    /\ now' = now + 1
    /\ ev' = Event("tick")
    /\ UNCHANGED <<storage, userState, isLoading, pc, parsedState, qLoading, notification,
                   showSync, prevLevelRef, trackingVars, dayStart>>

\* the load effect with no snapshot: onboarding is shown
LoadAbsent ==
    /\ pc = "start"
    /\ storage = None
    /\ pc' = "done"
    /\ isLoading' = FALSE
    /\ ev' = Event("loadAbsent")
    /\ UNCHANGED <<now, storage, userState, parsedState, qLoading, notification, showSync,
                   prevLevelRef, trackingVars, dayStart>>

\* the load effect, snapshot of the current day: the record is used as it is
LoadSameDay ==
    /\ pc = "start"
    /\ storage # None
    /\ LET parsed == JSONParse(storage[1])
       IN  /\ DayOf(now) = DayOf(parsed.lastLogin)
           /\ userState' = Some(parsed)
           /\ ev' = [Event("load") EXCEPT !.prev = Some(parsed)]
    /\ LevelEffect(userState, userState')
    /\ pc' = "done"
    /\ isLoading' = FALSE
    /\ UNCHANGED <<now, storage, parsedState, qLoading, showSync, trackingVars, dayStart>>

\* the load effect, snapshot of another day: new quests are requested
LoadOtherDay ==
    /\ pc = "start"
    /\ storage # None
    /\ LET parsed == JSONParse(storage[1])
       IN  /\ DayOf(now) # DayOf(parsed.lastLogin)
           /\ parsedState' = Some(parsed)
    /\ pc' = "awaitQuests"
    /\ ev' = Event("loadOtherDay")
    /\ UNCHANGED <<now, storage, userState, isLoading, qLoading, notification, showSync,
                   prevLevelRef, trackingVars, dayStart>>

\* the new day is not stamped
RefreshedRecordNoStamp(parsed, freshQuests, stamp) ==
    [parsed EXCEPT !.quests = freshQuests, !.dailyDistance = 0, !.dailySteps = 0]

\* the record generateNewQuests installs
RefreshedRecord(parsed, freshQuests, stamp) ==
    [parsed EXCEPT !.quests = freshQuests, !.lastLogin = stamp,
                   !.dailyDistance = 0, !.dailySteps = 0]

\* getAiResponse: the parsed answer, or null when the request fails or the
\* text of the response does not parse
getAiResponse(outcome, answer) == IF outcome = "ok" THEN Some(answer) ELSE None

AiFailures == {"networkError", "unparseable"}

\* the loading state is left only when quests were generated
StillLoadingOnFailure(answer) == answer = None

\* generateNewQuests: isLoading after setIsLoading(false)
LoadingAfterRefresh(answer) == FALSE

\* generateNewQuests after the generator answered: answer is None on a failure
GenerateDone(answer) ==
    /\ pc = "awaitQuests"
    /\ LET freshQuests == IF answer # None THEN FreshQuests(answer[1]) ELSE <<>>
           newState == RefreshedRecord(parsedState[1], freshQuests, now)
       IN  /\ userState' = Some(newState)
           /\ storage' = updateAndSaveState(Some(newState), storage)
           /\ dayStart' = Cumulative(newState)
           /\ ev' = [Event("refresh") EXCEPT !.prev = parsedState, !.batch = Some(freshQuests),
                                             !.failed = (answer = None)]
    /\ showSync' = TRUE
    /\ LevelEffect(userState, userState')
    /\ isLoading' = LoadingAfterRefresh(answer)
    /\ pc' = "done"
    /\ parsedState' = None
    /\ UNCHANGED <<now, qLoading, trackingVars>>

RefreshOk == \E b \in QuestBatches : GenerateDone(getAiResponse("ok", b))
RefreshFail == \E f \in AiFailures : GenerateDone(getAiResponse(f, <<>>))

\* Questionnaire.handleNext on the last question: the request is sent
SubmitAnswers ==
    /\ ~isLoading /\ userState = None /\ ~qLoading
    /\ qLoading' = TRUE
    /\ ev' = Event("submit")
    /\ UNCHANGED <<now, storage, userState, isLoading, pc, parsedState, notification,
                   showSync, prevLevelRef, trackingVars, dayStart>>

\* the generator answered: handleCompleteQuestionnaire(initialState)
OnboardOk ==
    /\ qLoading
    /\ \E n \in Names, d \in Difficulties, b \in QuestBatches :
         LET initialState == InitialState(n, d, b, now)
         IN  /\ userState' = Some(initialState)
             /\ storage' = updateAndSaveState(Some(initialState), storage)
             /\ dayStart' = Cumulative(initialState)
    /\ showSync' = TRUE
    /\ LevelEffect(userState, userState')
    /\ qLoading' = FALSE
    /\ ev' = Event("onboard")
    /\ UNCHANGED <<now, isLoading, pc, parsedState, trackingVars>>

\* the generator failed: the alert, and the questionnaire stays
OnboardFail ==
    /\ qLoading
    /\ qLoading' = FALSE
    /\ ev' = Event("onboardFail")
    /\ UNCHANGED <<now, storage, userState, isLoading, pc, parsedState, notification,
                   showSync, prevLevelRef, trackingVars, dayStart>>

\* updateQuestProgress(questId, value) through updateAndSaveState
ApplyProgress(questId, value) ==
    /\ userState' = IF userState = None THEN None
                    ELSE Some(updateQuestProgress(userState[1], questId, value))
    /\ storage' = updateAndSaveState(userState', storage)
    /\ showSync' = IF userState' # None THEN TRUE ELSE showSync
    /\ LevelEffect(userState, userState')

\* QuestItem.handleLogSubmit on a static quest that is not complete
LogProgress ==
    /\ Dashboard
    /\ \E i \in DOMAIN userState[1].quests, value \in Values :
         LET q == userState[1].quests[i]
         IN  /\ q.type = "static"
             /\ q.progress < q.goal
             /\ ApplyProgress(q.id, value)
             /\ ev' = [Event("log") EXCEPT !.quest = q.id, !.value = value, !.called = TRUE,
                                           !.prev = userState]
    /\ UNCHANGED <<now, isLoading, pc, parsedState, qLoading, trackingVars, dayStart>>

\* navigator.geolocation.clearWatch(id)
clearWatch(ws, id) == {w \in ws : w.id # id}

\* navigator.geolocation.watchPosition: the identifier of the new watch
NewWatchId(ws) ==
    CHOOSE n \in 1..(Cardinality(ws) + 1) :
        /\ \A w \in ws : w.id # n
        /\ \A m \in 1..(Cardinality(ws) + 1) : (\A w \in ws : w.id # m) => n <= m

\* a callback of a watch may be queued already when clearWatch removes the
\* watch: the quests of the watches the handler cleared (the questId its
\* callbacks close over) replace those waiting in queued
StaleAfter(before, after, queued) ==
    IF before \ after # {} THEN {w.quest : w \in before \ after} ELSE queued

\* handleToggleTracking: the anchor after the toggle
AnchorAfterToggle(anchor) == None

\* handleToggleTracking(questId)
handleToggleTracking(questId) ==
    LET isStopping == activeTrackingQuestId = Some(questId)
        cleared == IF questWatchIdRef # None THEN clearWatch(watches, questWatchIdRef[1])
                   ELSE watches
        id == NewWatchId(cleared)
    IN  /\ lastQuestPositionRef' = AnchorAfterToggle(lastQuestPositionRef)
        /\ IF isStopping
           THEN /\ activeTrackingQuestId' = None
                /\ questWatchIdRef' = None
                /\ watches' = cleared
           ELSE /\ activeTrackingQuestId' = Some(questId)
                /\ questWatchIdRef' = Some(id)
                /\ watches' = cleared \cup {[id |-> id, quest |-> questId, last |-> None]}
        /\ stale' = StaleAfter(watches, cleared, stale)

\* the Start Tracking / Stop Tracking button of a distance quest that is not complete
ToggleTracking ==
    /\ Dashboard
    /\ \E i \in DOMAIN userState[1].quests :
         LET q == userState[1].quests[i]
         IN  /\ q.type = "distance"
             /\ q.progress < q.goal
             /\ handleToggleTracking(q.id)
             /\ ev' = [Event(IF activeTrackingQuestId = Some(q.id) THEN "stop" ELSE "start")
                         EXCEPT !.quest = q.id, !.tracked = activeTrackingQuestId]
    /\ UNCHANGED <<now, storage, userState, isLoading, pc, parsedState, qLoading,
                   notification, showSync, prevLevelRef, dayStart>>

\* the position callback of the watch started for questId; kind and
\* sessPrev only label the event
positionCallback(questId, position, kind, sessPrev) ==
    /\ IF lastQuestPositionRef # None
       THEN /\ ApplyProgress(questId, haversineDistance(lastQuestPositionRef[1], position))
            /\ ev' = [Event(kind) EXCEPT
                        !.quest = questId, !.called = TRUE,
                        !.value = haversineDistance(lastQuestPositionRef[1], position),
                        !.prev = userState, !.pos = Some(position), !.sessPrev = sessPrev,
                        !.tracked = activeTrackingQuestId]
       ELSE /\ UNCHANGED <<userState, storage, showSync, notification, prevLevelRef>>
            /\ ev' = [Event(kind) EXCEPT
                        !.quest = questId, !.prev = userState, !.pos = Some(position),
                        !.sessPrev = sessPrev, !.tracked = activeTrackingQuestId]
    /\ lastQuestPositionRef' = Some(position)

\* the error callback of the watch started for questId
errorCallback(questId) ==
    IF activeTrackingQuestId = Some(questId)
    THEN /\ watches' = IF questWatchIdRef # None
                       THEN clearWatch(watches, questWatchIdRef[1]) ELSE watches
         /\ questWatchIdRef' = None
         /\ activeTrackingQuestId' = None
    ELSE UNCHANGED <<watches, questWatchIdRef, activeTrackingQuestId>>

\* a live watch delivers a fix
PositionFix ==
    \E w \in watches, position \in Positions :
        /\ positionCallback(w.quest, position, "fix", w.last)
        /\ watches' = (watches \ {w}) \cup {[w EXCEPT !.last = Some(position)]}
        /\ UNCHANGED <<now, isLoading, pc, parsedState, qLoading, activeTrackingQuestId,
                       questWatchIdRef, stale, dayStart>>

\* a live watch reports a sensor error
PositionError ==
    \E w \in watches :
        /\ errorCallback(w.quest)
        /\ stale' = StaleAfter(watches, watches', stale)
        /\ ev' = [Event("error") EXCEPT !.quest = w.quest, !.tracked = activeTrackingQuestId]
        /\ UNCHANGED <<now, storage, userState, isLoading, pc, parsedState, qLoading,
                       notification, showSync, prevLevelRef, lastQuestPositionRef, dayStart>>

\* a fix queued before its watch was cleared is delivered afterwards
LateFix ==
    \E questId \in stale, position \in Positions :
        /\ positionCallback(questId, position, "lateFix", None)
        /\ stale' = stale \ {questId}
        /\ UNCHANGED <<now, isLoading, pc, parsedState, qLoading, activeTrackingQuestId,
                       questWatchIdRef, watches, dayStart>>

\* a sensor error queued before its watch was cleared is delivered afterwards
LateError ==
    \E questId \in stale :
        /\ errorCallback(questId)
        /\ stale' = StaleAfter(watches, watches', stale \ {questId})
        /\ ev' = [Event("lateError") EXCEPT !.quest = questId,
                                            !.tracked = activeTrackingQuestId]
        /\ UNCHANGED <<now, storage, userState, isLoading, pc, parsedState, qLoading,
                       notification, showSync, prevLevelRef, lastQuestPositionRef, dayStart>>

\* LevelUpNotification.onAcknowledge
Acknowledge ==
    /\ Dashboard
    /\ notification # None
    /\ notification' = None
    /\ ev' = Event("ack")
    /\ UNCHANGED <<now, storage, userState, isLoading, pc, parsedState, qLoading, showSync,
                   prevLevelRef, trackingVars, dayStart>>

\* the timer of saveStateAndSync
SyncTimeout ==
    /\ showSync
    /\ showSync' = FALSE
    /\ ev' = Event("syncTimeout")
    /\ UNCHANGED <<now, storage, userState, isLoading, pc, parsedState, qLoading,
                   notification, prevLevelRef, trackingVars, dayStart>>

\* handleBeforeUnload: the snapshot after the page unloads
handleBeforeUnload(current, oldStorage) ==
    IF current # None THEN saveStateAndSync(current[1]) ELSE oldStorage

\* the page is torn down and the application starts again
Restart ==
    /\ userState' = None
    /\ isLoading' = TRUE
    /\ pc' = "start"
    /\ parsedState' = None
    /\ qLoading' = FALSE
    /\ notification' = None
    /\ showSync' = FALSE
    /\ prevLevelRef' = None
    /\ activeTrackingQuestId' = None
    /\ questWatchIdRef' = None
    /\ lastQuestPositionRef' = None
    /\ watches' = {}
    /\ stale' = {}

\* the user reloads the page, or closes and reopens the application
Reload ==
    /\ storage' = handleBeforeUnload(userState, storage)
    /\ Restart
    /\ ev' = [Event("reload") EXCEPT !.prev = userState]
    /\ UNCHANGED <<now, dayStart>>

\* the Reset Progress button, confirmed: removeItem, then window.location.reload()
Reset ==
    /\ Dashboard
    /\ storage' = handleBeforeUnload(userState, None)
    /\ Restart
    /\ ev' = [Event("reset") EXCEPT !.prev = userState]
    /\ UNCHANGED <<now, dayStart>>

Next ==
    \/ Tick
    \/ LoadAbsent
    \/ LoadSameDay
    \/ LoadOtherDay
    \/ RefreshOk
    \/ RefreshFail
    \/ SubmitAnswers
    \/ OnboardOk
    \/ OnboardFail
    \/ LogProgress
    \/ ToggleTracking
    \/ PositionFix
    \/ PositionError
    \/ LateFix
    \/ LateError
    \/ Acknowledge
    \/ SyncTimeout
    \/ Reload
    \/ Reset

Spec == Init /\ [][Next]_vars

\* ------------------------------------------- the progression engine alone
\* Player records the engine can be handed: a batch in any state of
\* progress, at a level and experience the level thresholds allow.
RECURSIVE QuestStates(_, _)
QuestStates(batch, i) ==
    IF i > Len(batch) THEN {<<>>}
    ELSE {<<[WithProgress(batch[i]) EXCEPT !.progress = p]>> \o rest :
            p \in 0..batch[i].goal, rest \in QuestStates(batch, i + 1)}

EngineRecordsOf(b) ==
    {[InitialState(n, d, b, 0) EXCEPT !.quests = qs, !.level = l, !.xp = x] :
        n \in Names, d \in Difficulties, qs \in QuestStates(b, 1),
        l \in 1..MaxStartLevel, x \in {0, 50, 150}}

EngineRecords == UNION {EngineRecordsOf(b) : b \in QuestBatches}

InitEngine ==
    /\ now = 0
    /\ \E r \in EngineRecords :
         /\ r.xp < XP_PER_LEVEL * r.level
         /\ userState = Some(r)
         /\ storage = saveStateAndSync(r)
         /\ prevLevelRef = Some(r.level)
         /\ dayStart = Cumulative(r)
    /\ isLoading = FALSE
    /\ pc = "done"
    /\ parsedState = None
    /\ qLoading = FALSE
    /\ notification = None
    /\ showSync = FALSE
    /\ activeTrackingQuestId = None
    /\ questWatchIdRef = None
    /\ lastQuestPositionRef = None
    /\ watches = {}
    /\ stale = {}
    /\ ev = NoEvent

\* one call updateQuestProgress(questId, value), with any identifier
EngineCall ==
    /\ \E questId \in QuestIds \cup {UnknownId}, value \in Values :
         /\ ApplyProgress(questId, value)
         /\ ev' = [Event("call") EXCEPT !.quest = questId, !.value = value, !.called = TRUE,
                                        !.prev = userState]
    /\ UNCHANGED <<now, isLoading, pc, parsedState, qLoading, trackingVars, dayStart>>

NextEngine == EngineCall

SpecEngine == InitEngine /\ [][NextEngine]_vars

\* ================================================================== claims
\* the player record before the last event, and after it
Prev == ev.prev[1]
Cur == userState[1]

\* the rewards of the quests that are at their goal
RECURSIVE CompletedRewards(_, _)
CompletedRewards(quests, i) ==
    IF i > Len(quests) THEN 0
    ELSE (IF quests[i].progress >= quests[i].goal THEN quests[i].xp ELSE 0)
         + CompletedRewards(quests, i + 1)

\* the experience the last update awarded: the rewards of the quests it completed
Awarded == CompletedRewards(Cur.quests, 1) - CompletedRewards(Prev.quests, 1)

\* C1: a call of updateQuestProgress with a positive delta whose identifier
\* matches no quest, or only a quest already at its goal, returns the record
\* it was given, equal in every field.
C1_NoOpReturnsInput ==
    (/\ ev.kind = "call"
     /\ ev.value > 0
     /\ \A i \in DOMAIN Prev.quests :
           Prev.quests[i].id = ev.quest => Prev.quests[i].progress >= Prev.quests[i].goal)
    => userState = ev.prev

\* C1 witness: a call on a quest that is complete was made and changed nothing
C1_Witness ==
    /\ ev.kind = "call"
    /\ ev.value > 0
    /\ \E i \in DOMAIN Prev.quests :
          Prev.quests[i].id = ev.quest /\ Prev.quests[i].progress >= Prev.quests[i].goal
    /\ userState = ev.prev

\* C2: a call on a quest below its goal, with a positive delta, sets its
\* progress to min(old + delta, goal), and adds to the cumulative experience
\* the quest's reward if old < goal <= new and nothing otherwise.
C2_ProgressAndAward ==
    (ev.kind = "call" /\ ev.value > 0) =>
        \A i \in DOMAIN Prev.quests :
            LET q == Prev.quests[i]
                new == Cur.quests[i].progress
            IN  (q.id = ev.quest /\ q.progress < q.goal) =>
                    /\ new = Min(q.progress + ev.value, q.goal)
                    /\ Cumulative(Cur) - Cumulative(Prev)
                         = IF q.progress < q.goal /\ q.goal <= new THEN q.xp ELSE 0

\* C2 witness: a call took a quest with a reward from below its goal to it
C2_Witness ==
    /\ ev.kind = "call"
    /\ \E i \in DOMAIN Prev.quests :
          /\ Prev.quests[i].id = ev.quest
          /\ Prev.quests[i].progress < Prev.quests[i].goal
          /\ Cur.quests[i].progress = Cur.quests[i].goal
          /\ Prev.quests[i].xp > 0
          /\ Cumulative(Cur) = Cumulative(Prev) + Prev.quests[i].xp

\* C3: between two daily refreshes the cumulative experience equals its
\* value when the day's quests were installed plus the rewards of the quests
\* that have reached their goal since: each reward is counted once, whatever
\* updates follow.
C3_RewardExactlyOnce ==
    userState # None =>
        Cumulative(Cur) = dayStart + CompletedRewards(Cur.quests, 1)

\* C3 witness: a fix arrived for a quest that was complete, after rewards were paid
C3_Witness ==
    /\ ev.kind = "fix"
    /\ ev.called
    /\ ev.value > 0
    /\ userState # None
    /\ \E i \in DOMAIN Prev.quests :
          /\ Prev.quests[i].id = ev.quest
          /\ Prev.quests[i].progress >= Prev.quests[i].goal
          /\ Prev.quests[i].xp > 0
    /\ Cumulative(Cur) > dayStart

\* C4: the level-up loop. From level L and experience xp, a call that awards
\* gain g ends at level L' >= L with experience E, 0 <= E < 100*L', and
\* E + 100*L + ... + 100*(L'-1) = xp + g; level 1, xp 0, gain 250 gives
\* level 2, xp 150.
C4_LevelUpLoop ==
    ev.kind = "call" =>
        /\ Cur.level >= Prev.level
        /\ Cur.xp >= 0
        /\ Cur.xp < XP_PER_LEVEL * Cur.level
        /\ Cur.xp + Thresholds(Prev.level, Cur.level) = Prev.xp + Awarded
        /\ (Prev.level = 1 /\ Prev.xp = 0 /\ Awarded = 250) => (Cur.level = 2 /\ Cur.xp = 150)

\* C4 witness: one call raised the level by two
C4_Witness ==
    /\ ev.kind = "call"
    /\ Cur.level >= Prev.level + 2
    /\ Awarded > 0

\* a player record within its invariants
WellFormed(r) ==
    /\ r.level >= 1
    /\ r.xp >= 0
    /\ r.xp < XP_PER_LEVEL * r.level
    /\ \A i \in DOMAIN r.quests :
          /\ r.quests[i].progress >= 0
          /\ r.quests[i].progress <= r.quests[i].goal
          /\ isCompleted(r.quests[i]) <=> (r.quests[i].progress = r.quests[i].goal)

\* C5: in every state reached from onboarding through updates, refreshes,
\* reloads and resets, the record in memory and the record persisted have
\* level >= 1, 0 <= xp < 100*level, and 0 <= progress <= goal for every quest,
\* a quest being shown complete exactly when its progress is at the goal.
C5_WellFormed ==
    /\ userState # None => WellFormed(Cur)
    /\ storage # None => WellFormed(JSONParse(storage[1]))

\* C5 witness: a record that levelled up and went through a refresh is loaded again
C5_Witness ==
    /\ ev.kind = "load"
    /\ Cur.level >= 2
    /\ DayOf(Cur.lastLogin) >= 1
    /\ \E i \in DOMAIN Cur.quests : Cur.quests[i].progress > 0

\* C6: the load effect. A snapshot of another day is refreshed: its quests
\* are replaced by the generated batch with progress 0, dailySteps and
\* dailyDistance are 0, the stamp is of the current day, and name, level, xp,
\* difficulty and skills are those persisted. A snapshot of the current day
\* is loaded equal to what was persisted, in every field.
C6_DailyRefresh ==
    /\ ev.kind = "loadOtherDay" =>
          /\ DayOf(parsedState[1].lastLogin) # DayOf(now)
          /\ parsedState[1] = JSONParse(storage[1])
    /\ ev.kind = "refresh" =>
          /\ Cur.quests = ev.batch[1]
          /\ \A i \in DOMAIN Cur.quests : Cur.quests[i].progress = 0
          /\ Cur.dailySteps = 0
          /\ Cur.dailyDistance = 0
          /\ DayOf(Cur.lastLogin) = DayOf(now)
          /\ Cur.name = Prev.name
          /\ Cur.level = Prev.level
          /\ Cur.xp = Prev.xp
          /\ Cur.difficulty = Prev.difficulty
          /\ Cur.skills = Prev.skills
    /\ ev.kind = "load" =>
          /\ DayOf(Cur.lastLogin) = DayOf(now)
          /\ JSONStringify(Cur) = storage[1]
          /\ Cur = Prev

\* C6 witness: a refresh replaced quests that had progress by a new batch
C6_Witness ==
    /\ ev.kind = "refresh"
    /\ \E i \in DOMAIN Prev.quests : Prev.quests[i].progress > 0
    /\ Len(Cur.quests) > 0
    /\ Cur.quests # Prev.quests
    /\ Cur.level >= 2

\* C7: after a confirmed reset the persisted snapshot is absent, the unload
\* handler taken into account.
C7_ResetDiscardsSnapshot == ev.kind = "reset" => storage = None

\* C8: whenever a player record is in memory the persisted snapshot is that
\* record as a whole, and a step that changed the record (a progress update,
\* onboarding, a refresh) leaves the sync indicator raised.
C8_SnapshotEqualsRecord ==
    /\ userState # None => storage = Some(JSONStringify(Cur))
    /\ userState # None => JSONParse(storage[1]) = Cur
    /\ (ev.kind \in {"onboard", "refresh"} \/ (ev.called /\ userState # ev.prev)) => showSync

\* C8 witness: a fix changed the record
C8_Witness ==
    /\ ev.kind = "fix"
    /\ ev.called
    /\ userState # ev.prev
    /\ showSync

\* the steps in which the level of the record in memory rises
LevelRises ==
    userState # None /\ userState' # None /\ userState'[1].level > userState[1].level

\* a notification is raised exactly in the steps where the level rises, and
\* it names the level reached
RaisedExactlyOnRise ==
    /\ LevelRises => notification' = Some(userState'[1].level)
    /\ (notification' # notification /\ notification' # None) => LevelRises

\* the persisted level never falls, and the snapshot is never removed: a
\* level reached once is never reached a second time
LevelNeverFalls ==
    storage # None => (storage' # None /\ storage'[1].level >= storage[1].level)

\* C9 as stated: a notification is raised exactly when an update raises the
\* level (never on a load), it is cleared only by the acknowledgment, and no
\* level is announced twice.
C9_ClearedOnlyByAcknowledge ==
    [][/\ RaisedExactlyOnRise
       /\ LevelNeverFalls
       /\ (notification # None /\ notification' = None) => ev'.kind = "ack"]_vars

\* C9 amended: as C9, except that the notification, which is not persisted,
\* is also cleared when the page is reloaded or reset.
C9_LevelUpNotification ==
    [][/\ RaisedExactlyOnRise
       /\ LevelNeverFalls
       /\ (notification # None /\ notification' = None)
            => ev'.kind \in {"ack", "reload", "reset"}]_vars

\* C9 witness: an update raised the level and the notification names it
C9_Witness ==
    /\ ev.called
    /\ userState # None
    /\ Cur.level > Prev.level
    /\ notification = Some(Cur.level)

\* the first fix of a watch applies no update; a later fix applies the
\* distance to the fix the same watch delivered before it, and the tracked
\* quest's progress grows by it up to the goal
FixRule ==
    ev.kind = "fix" =>
        IF ev.sessPrev = None
        THEN ~ev.called /\ userState = ev.prev
        ELSE /\ ev.called
             /\ ev.value = haversineDistance(ev.sessPrev[1], ev.pos[1])
             /\ \A i \in DOMAIN Prev.quests :
                   Prev.quests[i].id = ev.quest =>
                       Cur.quests[i].progress
                         = Min(Prev.quests[i].progress + ev.value, Prev.quests[i].goal)

\* C10 as stated: when tracking stops, by the toggle or by a sensor error,
\* the watch is cleared and the anchor is null; the first fix after a start
\* adds nothing and a later fix adds the distance to the fix before it.
C10_StopDiscardsAnchor ==
    /\ ev.kind \in {"stop", "error"} =>
          /\ watches = {}
          /\ activeTrackingQuestId = None
          /\ lastQuestPositionRef = None
    /\ FixRule

\* at most one watch is live
OneSubscription == Cardinality(watches) <= 1

\* a fix is applied only to the quest recorded as tracked
FixesGoToTrackedQuest ==
    (ev.kind \in {"fix", "lateFix"} /\ ev.called) => activeTrackingQuestId = Some(ev.quest)

\* starting to track a quest leaves its watch as the only one
StartReplacesWatch ==
    ev.kind = "start" =>
        /\ activeTrackingQuestId = Some(ev.quest)
        /\ \E w \in watches : watches = {w} /\ w.quest = ev.quest /\ questWatchIdRef = Some(w.id)

\* a fix of a cleared watch, delivered late, changes no progress
LateFixAddsNothing == ev.kind = "lateFix" => userState = ev.prev

\* a sensor error of a cleared watch, delivered while another quest is
\* tracked, leaves that tracking and its watch in place
LateErrorKeepsTracking ==
    (ev.kind = "lateError" /\ ev.tracked # None /\ ev.tracked # Some(ev.quest)) =>
        /\ activeTrackingQuestId = ev.tracked
        /\ \E w \in watches : w.quest = ev.tracked[1] /\ questWatchIdRef = Some(w.id)

\* C11: at most one location subscription is live and fixes are applied
\* only to the quest recorded as tracked; starting to track quest B while A
\* is tracked clears A's watch first; a fix or a sensor error of A's session
\* that arrives late neither adds progress to A nor stops B's tracking.
C11_OneTrackedQuest ==
    /\ OneSubscription
    /\ FixesGoToTrackedQuest
    /\ StartReplacesWatch
    /\ LateFixAddsNothing
    /\ LateErrorKeepsTracking

\* C12: when quest generation fails during a daily refresh, the refreshed
\* record has no quests, dailySteps 0, dailyDistance 0 and the stamp of the
\* current day, its name, level, xp, difficulty and skills are those
\* persisted, it is the record persisted from then on, and the application
\* leaves the loading state and shows the dashboard.
C12_FailedRefresh ==
    (ev.kind = "refresh" /\ ev.failed) =>
        /\ userState # None
        /\ Cur.quests = <<>>
        /\ Cur.dailySteps = 0
        /\ Cur.dailyDistance = 0
        /\ DayOf(Cur.lastLogin) = DayOf(now)
        /\ Cur.name = Prev.name
        /\ Cur.level = Prev.level
        /\ Cur.xp = Prev.xp
        /\ Cur.difficulty = Prev.difficulty
        /\ Cur.skills = Prev.skills
        /\ JSONParse(storage[1]) = Cur
        /\ ~isLoading
        /\ Dashboard

\* C12 witness: the generator failed while a record with progress and a
\* level above 1 was refreshed
C12_Witness ==
    /\ ev.kind = "refresh"
    /\ ev.failed
    /\ Prev.level >= 2
    /\ Len(Prev.quests) > 0
    /\ Cur.quests = <<>>
    /\ Dashboard

\* what a progress update on questId may change between the records old and
\* new: the progress of the quests with that identifier, xp and level
UpdateFrame(old, new, questId) ==
    /\ new.name = old.name
    /\ new.difficulty = old.difficulty
    /\ new.skills = old.skills
    /\ new.lastLogin = old.lastLogin
    /\ new.dailySteps = old.dailySteps
    /\ new.dailyDistance = old.dailyDistance
    /\ Len(new.quests) = Len(old.quests)
    /\ \A i \in DOMAIN old.quests :
          IF old.quests[i].id = questId
          THEN [new.quests[i] EXCEPT !.progress = old.quests[i].progress] = old.quests[i]
          ELSE new.quests[i] = old.quests[i]

\* C13: a step that makes a progress update, from a manual entry or from a
\* fix, changes at most the progress of the quest it names, xp and level;
\* and while a record is in memory no step changes dailySteps or
\* dailyDistance, which keep the value they had when the record was loaded.
C13_UpdateFrame ==
    [][/\ (ev'.called /\ userState # None /\ userState' # None)
            => UpdateFrame(userState[1], userState'[1], ev'.quest)
       /\ (userState # None /\ userState' # None)
            => /\ userState'[1].dailySteps = userState[1].dailySteps
               /\ userState'[1].dailyDistance = userState[1].dailyDistance]_vars

\* C13 witness: a fix advanced one quest and raised the level while another
\* quest kept its progress
C13_Witness ==
    /\ ev.kind = "fix"
    /\ ev.called
    /\ userState # None
    /\ Cur.level > Prev.level
    /\ \E i \in DOMAIN Cur.quests :
          /\ Cur.quests[i].id # ev.quest
          /\ Cur.quests[i].progress > 0
          /\ Cur.quests[i] = Prev.quests[i]
    /\ \E i \in DOMAIN Cur.quests :
          Cur.quests[i].id = ev.quest /\ Cur.quests[i].progress > Prev.quests[i].progress

====
